---- MODULE Spec2Model ----
(***************************************************************************)
(* disktest: the pseudo random generators (src/src/generator), the         *)
(* per-worker stream DtStream with its worker thread (src/src/stream.rs),  *)
(* the stream aggregator described in spec.md section 4.5, and the write   *)
(* and read runs of Disktest on a device (src/src/main.rs).                *)
(*                                                                         *)
(* The cipher and the hash themselves (rand_chacha, rust-crypto) are       *)
(* library code.  They are modelled as free constructors: a key stream     *)
(* block is the term [key, blk], a digest is the term of its input.  Two   *)
(* blocks are equal exactly when they were computed from equal inputs.     *)
(*                                                                         *)
(* Hasher, generator::buffer::Buffer and the aggregator are not among the  *)
(* source files; they follow spec.md 4.2, 4.1.2 and 4.5.                   *)
(*                                                                         *)
(* Threads interleave at their accesses to shared state (the two atomics   *)
(* and the channel); the atomics are read and written in one global order. *)
(***************************************************************************)
EXTENDS Integers, Sequences, FiniteSets, TLC

(***************************************************************************)
(* Bounds of the model.                                                    *)
(***************************************************************************)
\* Generator blocks per chunk.  The source takes CHUNKSIZE / Hasher::OUTSIZE
\* = 1024 * 10 blocks (stream.rs:70,94); the model takes a few.
ChunkFactor == 2
\* Successful get_chunk() calls of the consumer per activation.
MaxRecv == 2
\* activate() calls on one DtStream.
MaxGen == 2
\* Chunks one worker produces at most.  Backpressure keeps a worker at most
\* LEVEL_THRES + 1 chunks ahead of the consumer, so this binds only where
\* the worker sends into a closed channel.
MaxIndex == 12
\* Blocks a generator of the generator harness produces at most.
MaxBlocks == 3
\* Bytes of one generator block.  The source has Hasher::OUTSIZE bytes
\* (main.rs:69,75); the model takes a few.
OutSize == 2
\* Generator blocks per write and read buffer.  The source has 1024 * 10
\* (main.rs:69,117).
BufBlocks == 2
\* The largest --bytes of a write run; a read run may ask for one more.
MaxBytes == 7
\* The size of the block device.
DevCap == 6

(***************************************************************************)
(* Program constants.                                                      *)
(***************************************************************************)
\* DtStreamWorker::LEVEL_THRES
LEVEL_THRES == 8
\* The length of trunc_seed, the ChaCha20 key.
KEYLEN == 32

\* The seeds of the generator harness: lengths around the key length, the
\* last byte varied.
SeedLens == {1, 3, KEYLEN - 1, KEYLEN, KEYLEN + 1}
Seeds == { [i \in 1..n |-> IF i = n THEN b ELSE 1] : n \in SeedLens, b \in {2, 3} }
\* Worker serials (u16); 0 and 256 share their low byte.
Serials == {0, 1, 256}
\* The seeds and serials of a DtStream of the stream model.
StreamSeeds == { <<1, 2, 3>>, <<7>> }
StreamSerials == {0, 1}
\* The seed of the disktest runs.
DiskSeeds == { <<4, 2>> }
\* The numbers of streams of the aggregator.
AggSizes == {1, 2}
Algs == {"CHACHA20", "SHA512"}

(***************************************************************************)
(* Generators.                                                             *)
(***************************************************************************)
min(a, b) == IF a < b THEN a ELSE b

\* ChaCha20Rng::from_seed: the generator's state is the key and the position
\* in its key stream, counted in OUTSIZE blocks.
ChaCha20Rng_from_seed(key) == [key |-> key, pos |-> 0]

\* ChaCha20Rng::fill_bytes of one OUTSIZE buffer: the next key stream block.
ChaCha20Rng_fill_bytes(rng) ==
    [buf |-> [key |-> rng.key, blk |-> rng.pos],
     rng |-> [rng EXCEPT !.pos = @ + 1]]

\* trunc_seed copying one byte less than the key holds.
trunc_seed_OneShort(seed) ==
    LET len == min(KEYLEN - 1, Len(seed))
    IN  [i \in 1..KEYLEN |-> IF i <= len THEN seed[i] ELSE 0]

\* GeneratorChaCha20::new: the seed is left-aligned in a zeroed 32 byte key
\* and cut to its length.
trunc_seed(seed) ==
    LET len == min(KEYLEN, Len(seed))
    IN  [i \in 1..KEYLEN |-> IF i <= len THEN seed[i] ELSE 0]

GeneratorChaCha20_new(seed) ==
    [alg |-> "CHACHA20", rng |-> ChaCha20Rng_from_seed(trunc_seed(seed))]

\* GeneratorChaCha20::next
GeneratorChaCha20_next(g) ==
    LET r == ChaCha20Rng_fill_bytes(g.rng)
    IN  [out |-> r.buf, gen |-> [g EXCEPT !.rng = r.rng]]

\* generator::buffer::Buffer: the seed, a counter and the first PREVSIZE
\* bytes of the previous hash (<<>> stands for the initial zero bytes).
Buffer_new(seed) == [seed |-> seed, count |-> 0, prev |-> <<>>]

\* Sha512 over seed ++ counter ++ previous hash prefix.
Sha512(input) == [sha512 |-> input]

GeneratorSHA512_new(seed) == [alg |-> "SHA512", buffer |-> Buffer_new(seed)]

\* GeneratorSHA512::next: count the counter up, hash the buffer, keep the
\* hash as the next input's tail.
GeneratorSHA512_next(g) ==
    LET counted == [g.buffer EXCEPT !.count = @ + 1]
        hash == Sha512(counted)
    IN  [out |-> hash, gen |-> [g EXCEPT !.buffer = [counted EXCEPT !.prev = <<hash>>]]]

Generator_new(alg, seed) ==
    IF alg = "CHACHA20" THEN GeneratorChaCha20_new(seed) ELSE GeneratorSHA512_new(seed)

Generator_next(g) ==
    IF g.alg = "CHACHA20" THEN GeneratorChaCha20_next(g) ELSE GeneratorSHA512_next(g)

\* The serial as two bytes, little endian.
serial_le(serial) == << serial % 256, (serial \div 256) % 256 >>

\* Hasher::new(seed, serial): the generator of the seed followed by the serial.
Hasher_new(alg, seed, serial) == Generator_new(alg, seed \o serial_le(serial))

Hasher_next(h) == Generator_next(h)

\* The next n blocks of a hasher, concatenated, and its state after them:
\* the loop "for _ in 0..(CHUNKSIZE / OUTSIZE)" of DtStreamWorker::worker.
RECURSIVE Blocks(_, _)
Blocks(h, n) ==
    IF n = 0 THEN [data |-> <<>>, gen |-> h]
    ELSE LET r == Blocks(h, n - 1)
             s == Hasher_next(r.gen)
         IN  [data |-> Append(r.data, s.out), gen |-> s.gen]

(***************************************************************************)
(* State.                                                                  *)
(***************************************************************************)
VARIABLES
    alg,            \* the generator the Hasher wraps
    seed,           \* the user seed
    serial,         \* DtStream.serial, per stream
    level,          \* DtStream.level (AtomicIsize), per stream
    abort_thread,   \* DtStream.abort_thread (AtomicBool), per stream
    rx,             \* DtStream.rx: 0 is None, g the receiver of channel g
    thread_join,    \* DtStream.thread_join: 0 is None, g the handle of worker g
    workers,        \* per stream and generation g: the thread of worker g
    chans,          \* per stream and generation g: the channel of worker g
    cpc,            \* the consumer thread: where it is in its call
    cself,          \* the stream the consumer's call is on
    cop,            \* the call that runs stop(): "activate" or "drop"
    cjoin,          \* the join handle stop() took out of thread_join
    cchunk,         \* the message try_recv returned to get_chunk
    ret,            \* what the last get_chunk() returned
    delivered,      \* per stream: the messages returned since the last start()
    nsent,          \* per stream: successful sends on the current channel
    nrecv,          \* per stream: successful receives from the current channel
    cursor,         \* the aggregator's cursor (NoAgg: no aggregator)
    aggOut,         \* the chunks the aggregator returned, with their stream
    gUser,          \* generator harness: the two user seeds
    gSerial,        \* generator harness: the two serials (NoSerial: none)
    gGen,           \* generator harness: the two generators
    gOut,           \* generator harness: the blocks each generator returned
    file,           \* Disktest.file: the device, [fixed, data]
    hasher,         \* Disktest.hasher
    dpc,            \* where the disktest runs (write, then read) stand
    wmax,           \* write_mode: max_bytes
    rmax,           \* read_mode: max_bytes
    bytes_left,     \* write_mode, read_mode: bytes_left
    bytes_written,  \* write_mode: bytes_written
    bytes_read,     \* read_mode: bytes_read
    read_count,     \* read_mode: read_count
    read_len,       \* read_mode: read_len
    buffer,         \* read_mode: buffer[0..read_count]
    wres,           \* what write_mode returned
    rres,           \* what read_mode returned
    io              \* what the device calls did so far (for the claims only)

cfgVars == <<alg, seed, serial>>
consVars == <<cpc, cself, cop, cjoin, cchunk, ret>>
aggVars == <<cursor, aggOut>>
genVars == <<gUser, gSerial, gGen, gOut>>
streamVars == <<level, abort_thread, rx, thread_join, workers, chans,
                delivered, nsent, nrecv>>
diskVars == <<file, hasher, dpc, wmax, rmax, bytes_left, bytes_written,
              bytes_read, read_count, read_len, buffer, wres, rres, io>>
vars == <<cfgVars, streamVars, consVars, aggVars, genVars, diskVars>>

Gens == 1..MaxGen
StreamIds == DOMAIN serial
\* No aggregator owns the stream; no serial is appended to the seed.
NoAgg == 0 - 1
NoSerial == 0 - 1
NoChunk == [index |-> -1, data |-> <<>>]
\* A message of a channel: the chunk, and (for the claims only, the code has
\* no such field) the generation of the worker that sent it.
NoMsg == [chunk |-> NoChunk, by |-> 0]
NoHasher == [alg |-> "NONE"]
RetNoCall == [kind |-> "nocall", chunk |-> NoChunk]
RetNone == [kind |-> "none", chunk |-> NoChunk]
RetSome(c) == [kind |-> "some", chunk |-> c]

\* A thread that was not spawned yet, and one that has returned (its
\* DtStreamWorker, with the Sender in it, is dropped).
Unborn == [pc |-> "unborn", index |-> 0, hasher |-> NoHasher, chunk |-> NoChunk,
           send_err |-> FALSE]
Done == [pc |-> "done", index |-> 0, hasher |-> NoHasher, chunk |-> NoChunk,
         send_err |-> FALSE]
\* A channel whose Receiver does not exist (not created yet, or dropped, the
\* queued chunks with it).
Closed == [q |-> <<>>, rx_alive |-> FALSE]
Live(w) == w.pc \notin {"unborn", "done"}

\* DtStreamWorker::new passing serial 0 to every Hasher.
DtStreamWorker_new_SerialDropped(sd, sn) ==
    [pc |-> "loop", index |-> 0, hasher |-> Hasher_new(alg, sd, 0),
     chunk |-> NoChunk, send_err |-> FALSE]

\* DtStreamWorker::new
DtStreamWorker_new(sd, sn) ==
    [pc |-> "loop", index |-> 0, hasher |-> Hasher_new(alg, sd, sn),
     chunk |-> NoChunk, send_err |-> FALSE]

(***************************************************************************)
(* DtStreamWorker::worker, one action per access to shared state.          *)
(***************************************************************************)
\* while !self.abort.load(): leave the loop, the thread returns.
WorkerLoop(s, g) ==
    /\ workers[s][g].pc = "loop"
    /\ workers' = [workers EXCEPT ![s][g] =
                     IF abort_thread[s] THEN Done ELSE [@ EXCEPT !.pc = "level"]]
    /\ UNCHANGED <<cfgVars, level, abort_thread, rx, thread_join, chans,
                   delivered, nsent, nrecv, consVars, aggVars, genVars, diskVars>>

\* WorkerLevel without "self.index += 1".
WorkerLevel_IndexKept(s, g) ==
    LET w == workers[s][g]
        b == Blocks(w.hasher, ChunkFactor)
    IN  /\ w.pc = "level"
        /\ IF level[s] < LEVEL_THRES
           THEN /\ nsent[s] < MaxIndex
                /\ workers' = [workers EXCEPT ![s][g] =
                       [@ EXCEPT !.pc = "send",
                                 !.chunk = [index |-> w.index, data |-> b.data],
                                 !.hasher = b.gen]]
           ELSE workers' = [workers EXCEPT ![s][g].pc = "sleep"]
        /\ UNCHANGED <<cfgVars, level, abort_thread, rx, thread_join, chans,
                       delivered, nsent, nrecv, consVars, aggVars, genVars, diskVars>>

\* WorkerLevel without the check of the level: the worker never pauses.
WorkerLevel_NoBackpressure(s, g) ==
    LET w == workers[s][g]
        b == Blocks(w.hasher, ChunkFactor)
    IN  /\ w.pc = "level"
        /\ w.index < MaxIndex
        /\ workers' = [workers EXCEPT ![s][g] =
               [@ EXCEPT !.pc = "send",
                         !.chunk = [index |-> w.index, data |-> b.data],
                         !.index = w.index + 1,
                         !.hasher = b.gen]]
        /\ UNCHANGED <<cfgVars, level, abort_thread, rx, thread_join, chans,
                       delivered, nsent, nrecv, consVars, aggVars, genVars, diskVars>>

\* WorkerLevel with "<=" for "<": the worker still produces at the threshold.
WorkerLevel_ThresInclusive(s, g) ==
    LET w == workers[s][g]
        b == Blocks(w.hasher, ChunkFactor)
    IN  /\ w.pc = "level"
        /\ IF level[s] <= LEVEL_THRES
           THEN /\ w.index < MaxIndex
                /\ workers' = [workers EXCEPT ![s][g] =
                       [@ EXCEPT !.pc = "send",
                                 !.chunk = [index |-> w.index, data |-> b.data],
                                 !.index = w.index + 1,
                                 !.hasher = b.gen]]
           ELSE workers' = [workers EXCEPT ![s][g].pc = "sleep"]
        /\ UNCHANGED <<cfgVars, level, abort_thread, rx, thread_join, chans,
                       delivered, nsent, nrecv, consVars, aggVars, genVars, diskVars>>

\* if self.level.load() < LEVEL_THRES: build the chunk (thread local), else
\* go to sleep.
WorkerLevel(s, g) ==
    LET w == workers[s][g]
        b == Blocks(w.hasher, ChunkFactor)
    IN  /\ w.pc = "level"
        /\ IF level[s] < LEVEL_THRES
           THEN /\ w.index < MaxIndex
                /\ workers' = [workers EXCEPT ![s][g] =
                       [@ EXCEPT !.pc = "send",
                                 !.chunk = [index |-> w.index, data |-> b.data],
                                 !.index = w.index + 1,
                                 !.hasher = b.gen]]
           ELSE workers' = [workers EXCEPT ![s][g].pc = "sleep"]
        /\ UNCHANGED <<cfgVars, level, abort_thread, rx, thread_join, chans,
                       delivered, nsent, nrecv, consVars, aggVars, genVars, diskVars>>

\* self.tx.send(chunk): Ok while the Receiver exists, Err once it is dropped.
WorkerSend(s, g) ==
    /\ workers[s][g].pc = "send"
    /\ IF chans[s][g].rx_alive
       THEN /\ chans' = [chans EXCEPT ![s][g].q =
                           Append(@, [chunk |-> workers[s][g].chunk, by |-> g])]
            /\ nsent' = [nsent EXCEPT ![s] = @ + 1]
            /\ workers' = [workers EXCEPT ![s][g].pc = "inc",
                                          ![s][g].chunk = NoChunk]
       ELSE /\ workers' = [workers EXCEPT ![s][g].pc = "loop",
                                          ![s][g].chunk = NoChunk,
                                          ![s][g].send_err = TRUE]
            /\ UNCHANGED <<chans, nsent>>
    /\ UNCHANGED <<cfgVars, level, abort_thread, rx, thread_join,
                   delivered, nrecv, consVars, aggVars, genVars, diskVars>>

\* WorkerInc without "self.level.fetch_add(1)".
WorkerInc_NoAdd(s, g) ==
    /\ workers[s][g].pc = "inc"
    /\ workers' = [workers EXCEPT ![s][g].pc = "loop"]
    /\ UNCHANGED <<cfgVars, level, abort_thread, rx, thread_join, chans,
                   delivered, nsent, nrecv, consVars, aggVars, genVars, diskVars>>

\* self.level.fetch_add(1) after the successful send.
WorkerInc(s, g) ==
    /\ workers[s][g].pc = "inc"
    /\ level' = [level EXCEPT ![s] = @ + 1]
    /\ workers' = [workers EXCEPT ![s][g].pc = "loop"]
    /\ UNCHANGED <<cfgVars, abort_thread, rx, thread_join, chans,
                   delivered, nsent, nrecv, consVars, aggVars, genVars, diskVars>>

\* thread::sleep(10 ms) ends.
WorkerSleep(s, g) ==
    /\ workers[s][g].pc = "sleep"
    /\ workers' = [workers EXCEPT ![s][g].pc = "loop"]
    /\ UNCHANGED <<cfgVars, level, abort_thread, rx, thread_join, chans,
                   delivered, nsent, nrecv, consVars, aggVars, genVars, diskVars>>

(***************************************************************************)
(* DtStream, called by the thread that owns it (the consumer).             *)
(***************************************************************************)
\* DtStream::is_active
is_active(s) == thread_join[s] # 0 /\ ~abort_thread[s]

\* StopBegin without "abort_thread.store(true)".
StopBegin_AbortNotSet(s, op) ==
    /\ cpc = "idle"
    /\ cursor = NoAgg
    /\ op = "activate" => \E g \in Gens : workers[s][g].pc = "unborn"
    /\ cjoin' = thread_join[s]
    /\ thread_join' = [thread_join EXCEPT ![s] = 0]
    /\ cpc' = "join"
    /\ cself' = s
    /\ cop' = op
    /\ UNCHANGED <<cfgVars, level, abort_thread, rx, workers, chans, delivered,
                   nsent, nrecv, cchunk, ret, aggVars, genVars, diskVars>>

\* DtStream::stop up to the join: abort_thread.store(true) and
\* thread_join.replace(None).  op is the caller: activate() or drop().
StopBegin(s, op) ==
    /\ cpc = "idle"
    /\ cursor = NoAgg
    /\ op = "activate" => \E g \in Gens : workers[s][g].pc = "unborn"
    /\ abort_thread' = [abort_thread EXCEPT ![s] = TRUE]
    /\ cjoin' = thread_join[s]
    /\ thread_join' = [thread_join EXCEPT ![s] = 0]
    /\ cpc' = "join"
    /\ cself' = s
    /\ cop' = op
    /\ UNCHANGED <<cfgVars, level, rx, workers, chans, delivered, nsent, nrecv,
                   cchunk, ret, aggVars, genVars, diskVars>>

\* StopJoin without the join: stop() goes on while the worker still runs.
StopJoin_NotJoined(s) ==
    /\ cpc = "join"
    /\ cself = s
    /\ abort_thread' = [abort_thread EXCEPT ![s] = FALSE]
    /\ cjoin' = 0
    /\ IF cop = "activate"
       THEN /\ cpc' = "start"
            /\ UNCHANGED <<rx, chans>>
       ELSE /\ cpc' = "dropped"
            /\ rx' = [rx EXCEPT ![s] = 0]
            /\ chans' = [chans EXCEPT ![s] =
                           [g \in Gens |-> IF g = rx[s] THEN Closed ELSE chans[s][g]]]
    /\ UNCHANGED <<cfgVars, level, thread_join, workers, delivered, nsent, nrecv,
                   cself, cop, cchunk, ret, aggVars, genVars, diskVars>>

\* DtStream::stop from the join on: thread_join.join() returns once the
\* worker thread has returned (at once when there was no thread), then
\* abort_thread.store(false).  After drop()'s stop the fields are dropped,
\* the Receiver with them.
StopJoin(s) ==
    /\ cpc = "join"
    /\ cself = s
    /\ cjoin # 0 => workers[s][cjoin].pc = "done"
    /\ abort_thread' = [abort_thread EXCEPT ![s] = FALSE]
    /\ cjoin' = 0
    /\ IF cop = "activate"
       THEN /\ cpc' = "start"
            /\ UNCHANGED <<rx, chans>>
       ELSE /\ cpc' = "dropped"
            /\ rx' = [rx EXCEPT ![s] = 0]
            /\ chans' = [chans EXCEPT ![s] =
                           [g \in Gens |-> IF g = rx[s] THEN Closed ELSE chans[s][g]]]
    /\ UNCHANGED <<cfgVars, level, thread_join, workers, delivered, nsent, nrecv,
                   cself, cop, cchunk, ret, aggVars, genVars, diskVars>>

\* The generation of the next worker and channel.
NextGen(s) == 1 + Cardinality({g \in Gens : workers[s][g].pc # "unborn"})

\* DtStream::start: abort_thread.store(false), level.store(0), a new channel
\* whose Receiver replaces (and so drops) the old one, a new worker on a new
\* thread, its handle kept in thread_join.
Start(s) ==
    LET g == NextGen(s)
    IN  /\ cpc = "start"
        /\ cself = s
        /\ abort_thread' = [abort_thread EXCEPT ![s] = FALSE]
        /\ level' = [level EXCEPT ![s] = 0]
        /\ chans' = [chans EXCEPT ![s] =
                       [h \in Gens |-> IF h = g THEN [q |-> <<>>, rx_alive |-> TRUE]
                                       ELSE IF h = rx[s] THEN Closed
                                       ELSE chans[s][h]]]
        /\ rx' = [rx EXCEPT ![s] = g]
        /\ workers' = [workers EXCEPT ![s][g] = DtStreamWorker_new(seed, serial[s])]
        /\ thread_join' = [thread_join EXCEPT ![s] = g]
        /\ delivered' = [delivered EXCEPT ![s] = <<>>]
        /\ nsent' = [nsent EXCEPT ![s] = 0]
        /\ nrecv' = [nrecv EXCEPT ![s] = 0]
        /\ cpc' = "idle"
        /\ UNCHANGED <<cfgVars, cself, cop, cjoin, cchunk, ret, aggVars, genVars, diskVars>>

\* DtStream::activate
Activate(s) == StopBegin(s, "activate")

\* Drop for DtStream
Drop(s) == StopBegin(s, "drop")

\* get_chunk_recv with the fetch_sub also on the path that returns None.
get_chunk_recv_SubOnNone(s) ==
    /\ cpc = "idle"
    /\ Len(delivered[s]) < MaxRecv
    /\ IF is_active(s) /\ rx[s] # 0 /\ chans[s][rx[s]].q # <<>>
       THEN /\ cchunk' = Head(chans[s][rx[s]].q)
            /\ chans' = [chans EXCEPT ![s][rx[s]].q = Tail(@)]
            /\ nrecv' = [nrecv EXCEPT ![s] = @ + 1]
            /\ cpc' = "dec"
            /\ cself' = s
            /\ UNCHANGED <<ret, level>>
       ELSE /\ ret' = RetNone
            /\ level' = [level EXCEPT ![s] = IF @ > -3 THEN @ - 1 ELSE @]
            /\ UNCHANGED <<chans, nrecv, cpc, cself, cchunk>>
    /\ UNCHANGED <<cfgVars, abort_thread, rx, thread_join, workers,
                   delivered, nsent, cop, cjoin, genVars, diskVars>>

\* get_chunk_recv taking the newest chunk of the queue, not the oldest.
get_chunk_recv_Newest(s) ==
    /\ cpc = "idle"
    /\ Len(delivered[s]) < MaxRecv
    /\ IF is_active(s) /\ rx[s] # 0 /\ chans[s][rx[s]].q # <<>>
       THEN /\ cchunk' = chans[s][rx[s]].q[Len(chans[s][rx[s]].q)]
            /\ chans' = [chans EXCEPT ![s][rx[s]].q = SubSeq(@, 1, Len(@) - 1)]
            /\ nrecv' = [nrecv EXCEPT ![s] = @ + 1]
            /\ cpc' = "dec"
            /\ cself' = s
            /\ UNCHANGED ret
       ELSE /\ ret' = RetNone
            /\ UNCHANGED <<chans, nrecv, cpc, cself, cchunk>>
    /\ UNCHANGED <<cfgVars, level, abort_thread, rx, thread_join, workers,
                   delivered, nsent, cop, cjoin, genVars, diskVars>>

\* DtStream::get_chunk up to try_recv: None when the stream is not active,
\* has no Receiver or try_recv fails; else the chunk is taken off the queue.
get_chunk_recv(s) ==
    /\ cpc = "idle"
    /\ Len(delivered[s]) < MaxRecv
    /\ IF is_active(s) /\ rx[s] # 0 /\ chans[s][rx[s]].q # <<>>
       THEN /\ cchunk' = Head(chans[s][rx[s]].q)
            /\ chans' = [chans EXCEPT ![s][rx[s]].q = Tail(@)]
            /\ nrecv' = [nrecv EXCEPT ![s] = @ + 1]
            /\ cpc' = "dec"
            /\ cself' = s
            /\ UNCHANGED ret
       ELSE /\ ret' = RetNone
            /\ UNCHANGED <<chans, nrecv, cpc, cself, cchunk>>
    /\ UNCHANGED <<cfgVars, level, abort_thread, rx, thread_join, workers,
                   delivered, nsent, cop, cjoin, genVars, diskVars>>

\* get_chunk_ok without "self.level.fetch_sub(1)".
get_chunk_ok_LevelKept(s) ==
    /\ cpc = "dec"
    /\ cself = s
    /\ ret' = RetSome(cchunk.chunk)
    /\ delivered' = [delivered EXCEPT ![s] = Append(@, cchunk)]
    /\ cchunk' = NoMsg
    /\ cpc' = "idle"
    /\ UNCHANGED <<cfgVars, level, abort_thread, rx, thread_join, workers, chans,
                   nsent, nrecv, cself, cop, cjoin, genVars, diskVars>>

\* DtStream::get_chunk, the Ok arm: level.fetch_sub(1), Some(chunk).
get_chunk_ok(s) ==
    /\ cpc = "dec"
    /\ cself = s
    /\ level' = [level EXCEPT ![s] = @ - 1]
    /\ ret' = RetSome(cchunk.chunk)
    /\ delivered' = [delivered EXCEPT ![s] = Append(@, cchunk)]
    /\ cchunk' = NoMsg
    /\ cpc' = "idle"
    /\ UNCHANGED <<cfgVars, abort_thread, rx, thread_join, workers, chans,
                   nsent, nrecv, cself, cop, cjoin, genVars, diskVars>>

\* get_chunk() called on the DtStream by its owner.
GetChunk(s) == cursor = NoAgg /\ get_chunk_recv(s) /\ UNCHANGED aggVars

GetChunkOk(s) == cursor = NoAgg /\ get_chunk_ok(s) /\ UNCHANGED aggVars

(***************************************************************************)
(* The stream aggregator (spec.md 4.5): N streams with the serials         *)
(* 0..N-1, all activated, and a cursor.                                    *)
(***************************************************************************)
\* get_chunk: poll the stream under the cursor; none leaves the cursor.
AggGetChunk ==
    /\ cursor # NoAgg
    /\ get_chunk_recv(cursor)
    /\ UNCHANGED aggVars

\* get_chunk, a chunk was delivered: return it and advance the cursor.
AggGetChunkOk ==
    /\ cursor # NoAgg
    /\ get_chunk_ok(cursor)
    /\ aggOut' = Append(aggOut, [stream |-> cursor, chunk |-> cchunk.chunk])
    /\ cursor' = (cursor + 1) % Cardinality(StreamIds)

(***************************************************************************)
(* The generator harness: two generators, each built from a user seed,     *)
(* through the Hasher when it has a serial, and asked for blocks.          *)
(***************************************************************************)
GenNew(a, sd, sn) ==
    IF sn = NoSerial THEN Generator_new(a, sd) ELSE Hasher_new(a, sd, sn)

GenNext(i) ==
    LET r == Generator_next(gGen[i])
    IN  /\ Len(gOut[i]) < MaxBlocks
        /\ gGen' = [gGen EXCEPT ![i] = r.gen]
        /\ gOut' = [gOut EXCEPT ![i] = Append(@, r.out)]
        /\ UNCHANGED <<cfgVars, streamVars, consVars, aggVars, gUser, gSerial,
                       diskVars>>

(***************************************************************************)
(* The worker harness: a DtStreamWorker running on its thread while its    *)
(* environment holds the Receiver and the two atomics, and may receive,    *)
(* drop the Receiver and set the abort flag at any time.                   *)
(***************************************************************************)
DropReceiver(s) ==
    /\ cpc = "idle"
    /\ rx[s] # 0
    /\ chans' = [chans EXCEPT ![s][rx[s]] = Closed]
    /\ rx' = [rx EXCEPT ![s] = 0]
    /\ UNCHANGED <<cfgVars, level, abort_thread, thread_join, workers,
                   delivered, nsent, nrecv, consVars, aggVars, genVars, diskVars>>

SetAbort(s) ==
    /\ ~abort_thread[s]
    /\ abort_thread' = [abort_thread EXCEPT ![s] = TRUE]
    /\ UNCHANGED <<cfgVars, level, rx, thread_join, workers, chans,
                   delivered, nsent, nrecv, consVars, aggVars, genVars, diskVars>>

(***************************************************************************)
(* Disktest (main.rs): a write run and then a read run on one device, each *)
(* a process of its own that opens the device and builds its Disktest.     *)
(* The device is a file the open truncates and writes extend, or a block   *)
(* device of a fixed size that keeps what it held.                         *)
(***************************************************************************)
WRITEBUFLEN == OutSize * BufBlocks
READBUFLEN == OutSize * BufBlocks

\* Byte j of a generator block; a byte of what the device held before.
Byte(block, j) == [blk |-> block, off |-> j]
OldByte(i) == [blk |-> [old |-> TRUE], off |-> i]
\* A byte of the device that changed: it differs from every generator byte.
Flip(b) == [b EXCEPT !.off = @ + OutSize]

ResNone == [kind |-> "none", at |-> 0 - 1]
ResOk == [kind |-> "ok", at |-> 0 - 1]
ResErr(kind, at) == [kind |-> kind, at |-> at]

\* Disktest::new: Hasher::new(seed).
Disktest_new(sd) == Generator_new(alg, sd)

\* The device files the runs are given: no file yet, a file with content,
\* a block device.
Devices ==
    { [fixed |-> FALSE, data |-> <<>>],
      [fixed |-> FALSE, data |-> [i \in 1..3 |-> OldByte(i - 1)]],
      [fixed |-> TRUE, data |-> [i \in 1..DevCap |-> OldByte(i - 1)]] }

\* OpenOptions::open with truncate(write): a file is cut to length 0.
OpenTruncate(f) == IF f.fixed THEN f ELSE [f EXCEPT !.data = <<>>]

\* The device data after d was stored at offset pos.
Store(data, pos, d) ==
    LET end == IF Len(data) > pos + Len(d) THEN Len(data) ELSE pos + Len(d)
    IN  [i \in 1..end |-> IF i > pos /\ i <= pos + Len(d) THEN d[i - pos] ELSE data[i]]

\* FillBuffer with one hasher.next() for the whole buffer: every OUTSIZE
\* bytes of it repeat that block.
FillBuffer_BlockReused(h, i, write_len) ==
    IF i >= write_len THEN [data |-> <<>>, gen |-> h]
    ELSE LET r == Hasher_next(h)
         IN  [data |-> [j \in 1..(write_len - i) |-> Byte(r.out, (j - 1) % OutSize)],
              gen |-> r.gen]

\* FillBuffer without the cut of the last block: the buffer ends with a
\* whole block.
RECURSIVE FillBuffer_WholeBlocks(_, _, _)
FillBuffer_WholeBlocks(h, i, write_len) ==
    IF i >= write_len THEN [data |-> <<>>, gen |-> h]
    ELSE LET r == Hasher_next(h)
             rest == FillBuffer_WholeBlocks(r.gen, i + OutSize, write_len)
         IN  [data |-> [j \in 1..OutSize |-> Byte(r.out, j - 1)] \o rest.data,
              gen |-> rest.gen]

\* write_mode, "Fill the write buffer": a block per OUTSIZE bytes of
\* write_len, of the last block only what write_len leaves.
RECURSIVE FillBuffer(_, _, _)
FillBuffer(h, i, write_len) ==
    IF i >= write_len THEN [data |-> <<>>, gen |-> h]
    ELSE LET r == Hasher_next(h)
             chunk_len == min(OutSize, write_len - i)
             rest == FillBuffer(r.gen, i + OutSize, write_len)
         IN  [data |-> [j \in 1..chunk_len |-> Byte(r.out, j - 1)] \o rest.data,
              gen |-> rest.gen]

\* main for --write: open the device, Disktest::new, and write_mode up to
\* its loop.
DiskWriteOpen(mb) ==
    /\ dpc = "start"
    /\ file' = OpenTruncate(file)
    /\ hasher' = Disktest_new(seed)
    /\ wmax' = mb
    /\ bytes_left' = mb
    /\ bytes_written' = 0
    /\ dpc' = "write"
    /\ io' = [io EXCEPT !.old = file'.data]
    /\ UNCHANGED <<cfgVars, streamVars, consVars, aggVars, genVars, rmax,
                   bytes_read, read_count, read_len, buffer, wres, rres>>

\* The bytes the device can take at the write position.
Room == IF file.fixed THEN Len(file.data) - bytes_written ELSE WRITEBUFLEN

\* write_mode, one turn of its loop: fill the buffer, write_all, account.
\* write_all returns Ok when the device took the buffer, or an error (the
\* device is full, or another I/O error) after it took k bytes of it; an
\* empty buffer cannot fail.
WriteLoop(out, k) ==
    LET write_len == min(WRITEBUFLEN, bytes_left)
        f == FillBuffer(hasher, 0, write_len)
    IN  /\ dpc = "write"
        /\ hasher' = f.gen
        /\ IF out = "ok"
           THEN /\ k = 0
                /\ write_len <= Room
                /\ file' = [file EXCEPT !.data = Store(@, bytes_written, f.data)]
                /\ bytes_written' = bytes_written + write_len
                /\ bytes_left' = bytes_left - write_len
                /\ dpc' = IF bytes_left' = 0 THEN "finalize" ELSE "write"
                /\ io' = [io EXCEPT !.dirty = TRUE, !.wlens = Append(@, write_len),
                                    !.extent = @ + write_len]
           ELSE /\ write_len >= 1
                /\ k <= min(write_len - 1, Room)
                /\ (out = "nospace" /\ file.fixed) => k = Room
                /\ file' = [file EXCEPT !.data =
                              Store(@, bytes_written, SubSeq(f.data, 1, k))]
                /\ dpc' = "finalize"
                /\ io' = [io EXCEPT !.dirty = TRUE, !.wlens = Append(@, write_len),
                                    !.extent = @ + k, !.werr = out]
                /\ UNCHANGED <<bytes_written, bytes_left>>
        /\ UNCHANGED <<cfgVars, streamVars, consVars, aggVars, genVars, wmax, rmax,
                       bytes_read, read_count, read_len, buffer, wres, rres>>

\* WriteFinalize without the check of what sync_all returned.
WriteFinalize_SyncIgnored(sync_ok) ==
    /\ dpc = "finalize"
    /\ io' = [io EXCEPT !.nsync = @ + 1, !.sync_ok = sync_ok,
                        !.dirty = IF sync_ok THEN FALSE ELSE @]
    /\ wres' = ResOk
    /\ dpc' = "wrote"
    /\ UNCHANGED <<cfgVars, streamVars, consVars, aggVars, genVars, file, hasher,
                   wmax, rmax, bytes_left, bytes_written, bytes_read, read_count,
                   read_len, buffer, rres>>

\* write_mode_finalize and the return of write_mode: sync_all fails or not.
WriteFinalize(sync_ok) ==
    /\ dpc = "finalize"
    /\ io' = [io EXCEPT !.nsync = @ + 1, !.sync_ok = sync_ok,
                        !.dirty = IF sync_ok THEN FALSE ELSE @]
    /\ wres' = IF sync_ok THEN ResOk ELSE ResErr("sync", bytes_written)
    /\ dpc' = "wrote"
    /\ UNCHANGED <<cfgVars, streamVars, consVars, aggVars, genVars, file, hasher,
                   wmax, rmax, bytes_left, bytes_written, bytes_read, read_count,
                   read_len, buffer, rres>>

\* Between the runs one byte of the device changes.
Tamper(p) ==
    /\ dpc = "wrote"
    /\ p < Len(file.data)
    /\ io.flipped = {}
    /\ file' = [file EXCEPT !.data[p + 1] = Flip(@)]
    /\ io' = [io EXCEPT !.flipped = @ \cup {p}]
    /\ UNCHANGED <<cfgVars, streamVars, consVars, aggVars, genVars, hasher, dpc,
                   wmax, rmax, bytes_left, bytes_written, bytes_read, read_count,
                   read_len, buffer, wres, rres>>

\* DiskReadOpen with read_len set to the buffer length, max_bytes not
\* looked at.
DiskReadOpen_LenNotCapped(mb) ==
    /\ dpc = "wrote"
    /\ hasher' = Disktest_new(seed)
    /\ rmax' = mb
    /\ bytes_left' = mb
    /\ bytes_read' = 0
    /\ read_count' = 0
    /\ buffer' = <<>>
    /\ read_len' = READBUFLEN
    /\ dpc' = "read"
    /\ UNCHANGED <<cfgVars, streamVars, consVars, aggVars, genVars, file, wmax,
                   bytes_written, wres, rres, io>>

\* main without --write: open the device, Disktest::new, and read_mode up
\* to its loop.
DiskReadOpen(mb) ==
    /\ dpc = "wrote"
    /\ hasher' = Disktest_new(seed)
    /\ rmax' = mb
    /\ bytes_left' = mb
    /\ bytes_read' = 0
    /\ read_count' = 0
    /\ buffer' = <<>>
    /\ read_len' = min(READBUFLEN, mb)
    /\ dpc' = "read"
    /\ UNCHANGED <<cfgVars, streamVars, consVars, aggVars, genVars, file, wmax,
                   bytes_written, wres, rres, io>>

\* Compare reporting the last byte of a block that differs, not the first.
RECURSIVE Compare_LastOfBlock(_, _, _)
Compare_LastOfBlock(h, buf, i) ==
    IF i >= Len(buf) THEN [at |-> 0 - 1, gen |-> h]
    ELSE LET r == Hasher_next(h)
             n == min(OutSize, Len(buf) - i)
             bad == {j \in 0..(n - 1) : buf[i + j + 1] # Byte(r.out, j)}
         IN  IF bad # {}
             THEN [at |-> i + (CHOOSE j \in bad : \A l \in bad : j >= l), gen |-> r.gen]
             ELSE Compare_LastOfBlock(r.gen, buf, i + OutSize)

\* read_mode, "Calculate and compare": a block per OUTSIZE bytes of the
\* buffer, compared byte by byte up to the first that differs; at is its
\* index in the buffer, -1 when none differs.
RECURSIVE Compare(_, _, _)
Compare(h, buf, i) ==
    IF i >= Len(buf) THEN [at |-> 0 - 1, gen |-> h]
    ELSE LET r == Hasher_next(h)
             n == min(OutSize, Len(buf) - i)
             bad == {j \in 0..(n - 1) : buf[i + j + 1] # Byte(r.out, j)}
         IN  IF bad # {}
             THEN [at |-> i + (CHOOSE j \in bad : \A l \in bad : j <= l), gen |-> r.gen]
             ELSE Compare(r.gen, buf, i + OutSize)

\* ReadRequest with the rest of the whole buffer, whatever max_bytes leaves.
ReadRequest_WholeBuffer == READBUFLEN - read_count

\* The slice read_mode hands to file.read, and what the device still holds
\* at the read position.
ReadRequest == read_len - read_count
ReadAvail == Len(file.data) - (bytes_read + read_count)

\* read_mode, one turn of its loop with file.read returning Ok(n): the
\* bytes are in the buffer, then the Ok(n) arm with its assert.
ReadArm(n) ==
    LET pos == bytes_read + read_count
        most == min(ReadRequest, ReadAvail)
        count == read_count + n
        buf == buffer \o SubSeq(file.data, pos + 1, pos + n)
        c == Compare(hasher, buf, 0)
        left == bytes_left - count
    IN  /\ dpc = "read"
        /\ io' = [io EXCEPT !.short = @ \/ n < most,
                            !.asserted = @ /\ count <= read_len]
        /\ IF count = read_len \/ (count > 0 /\ n = 0)
           THEN IF c.at >= 0
                THEN /\ rres' = ResErr("mismatch", bytes_read + c.at)
                     /\ dpc' = "end"
                     /\ read_count' = count
                     /\ buffer' = buf
                     /\ UNCHANGED <<hasher, bytes_read, bytes_left, read_len>>
                ELSE /\ hasher' = c.gen
                     /\ bytes_read' = bytes_read + count
                     /\ bytes_left' = left
                     /\ IF left = 0
                        THEN /\ rres' = ResOk
                             /\ dpc' = "end"
                             /\ read_count' = count
                             /\ buffer' = buf
                             /\ UNCHANGED read_len
                        ELSE /\ read_count' = 0
                             /\ buffer' = <<>>
                             /\ read_len' = min(READBUFLEN, left)
                             /\ rres' = IF n = 0 THEN ResOk ELSE rres
                             /\ dpc' = IF n = 0 THEN "end" ELSE "read"
           ELSE /\ read_count' = count
                /\ buffer' = buf
                /\ rres' = IF n = 0 THEN ResOk ELSE rres
                /\ dpc' = IF n = 0 THEN "end" ELSE "read"
                /\ UNCHANGED <<hasher, bytes_read, bytes_left, read_len>>
        /\ UNCHANGED <<cfgVars, streamVars, consVars, aggVars, genVars, file, wmax,
                       rmax, bytes_written, wres>>

\* A turn of the loop on a device that keeps the contract of Read::read: n
\* is 0 for an empty slice and at the end of the device only.
ReadLoop(n) ==
    /\ IF min(ReadRequest, ReadAvail) = 0 THEN n = 0
       ELSE n >= 1 /\ n <= min(ReadRequest, ReadAvail)
    /\ ReadArm(n)

\* A turn of the loop on a device whose reads return any number of bytes
\* from 0 to the length of the slice, as far as it holds bytes.
ReadAny(n) ==
    /\ n <= min(ReadRequest, ReadAvail)
    /\ ReadArm(n)

\* read_mode, file.read returning Err.
ReadError ==
    /\ dpc = "read"
    /\ rres' = ResErr("read", bytes_read)
    /\ dpc' = "end"
    /\ io' = [io EXCEPT !.rerr = TRUE]
    /\ UNCHANGED <<cfgVars, streamVars, consVars, aggVars, genVars, file, hasher,
                   wmax, rmax, bytes_left, bytes_written, bytes_read, read_count,
                   read_len, buffer, wres>>

(***************************************************************************)
(* Initial states.                                                         *)
(***************************************************************************)
\* The consumer between two calls.
ConsumerIdle ==
    /\ cpc = "idle"
    /\ cself = 0
    /\ cop = "none"
    /\ cjoin = 0
    /\ cchunk = NoMsg
    /\ ret = RetNoCall

\* DtStream::new for the streams 0..n-1.
StreamsNew(n) ==
    /\ level = [s \in 0..n-1 |-> 0]
    /\ abort_thread = [s \in 0..n-1 |-> FALSE]
    /\ rx = [s \in 0..n-1 |-> 0]
    /\ thread_join = [s \in 0..n-1 |-> 0]
    /\ workers = [s \in 0..n-1 |-> [g \in Gens |-> Unborn]]
    /\ chans = [s \in 0..n-1 |-> [g \in Gens |-> Closed]]
    /\ delivered = [s \in 0..n-1 |-> <<>>]
    /\ nsent = [s \in 0..n-1 |-> 0]
    /\ nrecv = [s \in 0..n-1 |-> 0]

\* DtStream::new and activate() for the streams 0..n-1: no worker to stop,
\* and start() has run.
StreamsActivated(n) ==
    /\ level = [s \in 0..n-1 |-> 0]
    /\ abort_thread = [s \in 0..n-1 |-> FALSE]
    /\ rx = [s \in 0..n-1 |-> 1]
    /\ thread_join = [s \in 0..n-1 |-> 1]
    /\ workers = [s \in 0..n-1 |->
                    [g \in Gens |-> IF g = 1 THEN DtStreamWorker_new(seed, serial[s])
                                    ELSE Unborn]]
    /\ chans = [s \in 0..n-1 |->
                  [g \in Gens |-> IF g = 1 THEN [q |-> <<>>, rx_alive |-> TRUE]
                                  ELSE Closed]]
    /\ delivered = [s \in 0..n-1 |-> <<>>]
    /\ nsent = [s \in 0..n-1 |-> 0]
    /\ nrecv = [s \in 0..n-1 |-> 0]

NoGenerators ==
    /\ gUser = <<>>
    /\ gSerial = <<>>
    /\ gGen = <<>>
    /\ gOut = <<>>

\* No Disktest runs.
NoDisktest ==
    /\ file = [fixed |-> FALSE, data |-> <<>>]
    /\ hasher = NoHasher
    /\ dpc = "none"
    /\ wmax = 0
    /\ rmax = 0
    /\ bytes_left = 0
    /\ bytes_written = 0
    /\ bytes_read = 0
    /\ read_count = 0
    /\ read_len = 0
    /\ buffer = <<>>
    /\ wres = ResNone
    /\ rres = ResNone
    /\ io = [werr |-> "none", nsync |-> 0, sync_ok |-> FALSE, dirty |-> FALSE,
             wlens |-> <<>>, extent |-> 0, flipped |-> {}, old |-> <<>>,
             short |-> FALSE, rerr |-> FALSE, asserted |-> TRUE]

\* One DtStream, just constructed.
Init ==
    /\ alg \in Algs
    /\ seed \in StreamSeeds
    /\ serial \in [{0} -> StreamSerials]
    /\ StreamsNew(1)
    /\ ConsumerIdle
    /\ cursor = NoAgg
    /\ aggOut = <<>>
    /\ NoGenerators
    /\ NoDisktest

\* One DtStreamWorker spawned on its channel.
InitWorker ==
    /\ alg \in Algs
    /\ seed \in StreamSeeds
    /\ serial \in [{0} -> StreamSerials]
    /\ StreamsActivated(1)
    /\ ConsumerIdle
    /\ cursor = NoAgg
    /\ aggOut = <<>>
    /\ NoGenerators
    /\ NoDisktest

\* The aggregator, just constructed: n streams with the serials 0..n-1,
\* activated, the cursor at 0.
InitAgg ==
    /\ alg \in Algs
    /\ seed \in StreamSeeds
    /\ \E n \in AggSizes : serial = [s \in 0..n-1 |-> s] /\ StreamsActivated(n)
    /\ ConsumerIdle
    /\ cursor = 0
    /\ aggOut = <<>>
    /\ NoGenerators
    /\ NoDisktest

\* Two generators, just constructed.
InitGen ==
    /\ alg \in Algs
    /\ seed = <<>>
    /\ serial = [s \in {0} |-> 0]
    /\ StreamsNew(1)
    /\ ConsumerIdle
    /\ cursor = NoAgg
    /\ aggOut = <<>>
    /\ gUser \in Seeds \X Seeds
    /\ gSerial \in (Serials \cup {NoSerial}) \X (Serials \cup {NoSerial})
    /\ gGen = [i \in 1..2 |-> GenNew(alg, gUser[i], gSerial[i])]
    /\ gOut = [i \in 1..2 |-> <<>>]
    /\ NoDisktest

\* A device and the two runs ahead.
InitDisk ==
    /\ alg \in Algs
    /\ seed \in DiskSeeds
    /\ serial = [s \in {0} |-> 0]
    /\ StreamsNew(1)
    /\ ConsumerIdle
    /\ cursor = NoAgg
    /\ aggOut = <<>>
    /\ NoGenerators
    /\ file \in Devices
    /\ hasher = NoHasher
    /\ dpc = "start"
    /\ wmax = 0
    /\ rmax = 0
    /\ bytes_left = 0
    /\ bytes_written = 0
    /\ bytes_read = 0
    /\ read_count = 0
    /\ read_len = 0
    /\ buffer = <<>>
    /\ wres = ResNone
    /\ rres = ResNone
    /\ io = [werr |-> "none", nsync |-> 0, sync_ok |-> FALSE, dirty |-> FALSE,
             wlens |-> <<>>, extent |-> 0, flipped |-> {}, old |-> <<>>,
             short |-> FALSE, rerr |-> FALSE, asserted |-> TRUE]

(***************************************************************************)
(* Specifications.                                                         *)
(***************************************************************************)
\* One DtStream and its owner.
Next ==
    \/ \E s \in StreamIds, g \in Gens : WorkerLoop(s, g)
    \/ \E s \in StreamIds, g \in Gens : WorkerLevel(s, g)
    \/ \E s \in StreamIds, g \in Gens : WorkerSend(s, g)
    \/ \E s \in StreamIds, g \in Gens : WorkerInc(s, g)
    \/ \E s \in StreamIds, g \in Gens : WorkerSleep(s, g)
    \/ \E s \in StreamIds : Activate(s)
    \/ \E s \in StreamIds : Drop(s)
    \/ \E s \in StreamIds : StopJoin(s)
    \/ \E s \in StreamIds : Start(s)
    \/ \E s \in StreamIds : GetChunk(s)
    \/ \E s \in StreamIds : GetChunkOk(s)

Spec == Init /\ [][Next]_vars

\* A step of a worker thread.
Worker ==
    \E s \in StreamIds, g \in Gens :
        \/ WorkerLoop(s, g)
        \/ WorkerLevel(s, g)
        \/ WorkerSend(s, g)
        \/ WorkerInc(s, g)
        \/ WorkerSleep(s, g)

\* The worker thread is scheduled, and the consumer goes on with a call it
\* has begun.
Fairness ==
    /\ WF_vars(Worker)
    /\ WF_vars(\E s \in StreamIds : StopJoin(s))
    /\ WF_vars(\E s \in StreamIds : Start(s))
    /\ WF_vars(\E s \in StreamIds : GetChunkOk(s))

FairSpec == Spec /\ Fairness

\* One DtStreamWorker and its environment.
NextWorker ==
    \/ \E s \in StreamIds, g \in Gens : WorkerLoop(s, g)
    \/ \E s \in StreamIds, g \in Gens : WorkerLevel(s, g)
    \/ \E s \in StreamIds, g \in Gens : WorkerSend(s, g)
    \/ \E s \in StreamIds, g \in Gens : WorkerInc(s, g)
    \/ \E s \in StreamIds, g \in Gens : WorkerSleep(s, g)
    \/ \E s \in StreamIds : GetChunk(s)
    \/ \E s \in StreamIds : GetChunkOk(s)
    \/ \E s \in StreamIds : DropReceiver(s)
    \/ \E s \in StreamIds : SetAbort(s)

SpecWorker == InitWorker /\ [][NextWorker]_vars

\* The aggregator and its streams' workers.
NextAgg ==
    \/ \E s \in StreamIds, g \in Gens : WorkerLoop(s, g)
    \/ \E s \in StreamIds, g \in Gens : WorkerLevel(s, g)
    \/ \E s \in StreamIds, g \in Gens : WorkerSend(s, g)
    \/ \E s \in StreamIds, g \in Gens : WorkerInc(s, g)
    \/ \E s \in StreamIds, g \in Gens : WorkerSleep(s, g)
    \/ AggGetChunk
    \/ AggGetChunkOk

SpecAgg == InitAgg /\ [][NextAgg]_vars

\* The generators.
NextGenerators == \E i \in 1..2 : GenNext(i)

SpecGen == InitGen /\ [][NextGenerators]_vars

\* The write run and the read run of the disktest.
NextDisk ==
    \/ \E mb \in 0..MaxBytes : DiskWriteOpen(mb)
    \/ \E out \in {"ok", "nospace", "other"}, k \in 0..WRITEBUFLEN : WriteLoop(out, k)
    \/ \E sync_ok \in BOOLEAN : WriteFinalize(sync_ok)
    \/ \E p \in 0..MaxBytes : Tamper(p)
    \/ \E mb \in 0..(MaxBytes + 1) : DiskReadOpen(mb)
    \/ \E n \in 0..READBUFLEN : ReadLoop(n)
    \/ ReadError

SpecDisk == InitDisk /\ [][NextDisk]_vars

\* The process is scheduled: a run that has begun goes on.
FairSpecDisk ==
    /\ SpecDisk
    /\ WF_vars(\E out \in {"ok", "nospace", "other"}, k \in 0..WRITEBUFLEN : WriteLoop(out, k))
    /\ WF_vars(\E sync_ok \in BOOLEAN : WriteFinalize(sync_ok))
    /\ WF_vars(\E n \in 0..READBUFLEN : ReadLoop(n))

\* The two runs on a device whose reads may return 0 bytes anywhere.
NextDiskReads ==
    \/ \E mb \in 0..MaxBytes : DiskWriteOpen(mb)
    \/ \E out \in {"ok", "nospace", "other"}, k \in 0..WRITEBUFLEN : WriteLoop(out, k)
    \/ \E sync_ok \in BOOLEAN : WriteFinalize(sync_ok)
    \/ \E p \in 0..MaxBytes : Tamper(p)
    \/ \E mb \in 0..(MaxBytes + 1) : DiskReadOpen(mb)
    \/ \E n \in 0..READBUFLEN : ReadAny(n)
    \/ ReadError

SpecDiskReads == InitDisk /\ [][NextDiskReads]_vars

(***************************************************************************)
(* Claims.                                                                 *)
(***************************************************************************)
\* C1: the chunks get_chunk() has returned since the last start() carry the
\* indices 0, 1, 2, ... in that order: the k-th chunk returned has index k.
C1_IndicesInOrder ==
    \A s \in StreamIds : \A k \in 1..Len(delivered[s]) : delivered[s][k].chunk.index = k - 1

\* C1's case: a restarted stream has returned two chunks or more.
C1_Witness ==
    /\ Len(delivered[0]) >= 2
    /\ Live(workers[0][2])

\* The hasher of a worker after it has built k chunks.
RECURSIVE HasherAfter(_, _)
HasherAfter(h, k) ==
    IF k = 0 THEN h ELSE Blocks(HasherAfter(h, k - 1), ChunkFactor).gen

\* The k-th chunk (k >= 0) of the stream of a seed and a serial.
ChunkOf(a, sd, sn, k) ==
    [index |-> k, data |-> Blocks(HasherAfter(Hasher_new(a, sd, sn), k), ChunkFactor).data]

\* C2: what a stream delivers is a function of the algorithm, the seed and
\* the serial alone: in every run, under every interleaving, the k-th chunk
\* returned since the last start() is chunk k of that seed and serial.
C2_Deterministic ==
    \A s \in StreamIds : \A k \in 1..Len(delivered[s]) :
        delivered[s][k].chunk = ChunkOf(alg, seed, serial[s], k - 1)

\* C2's case: two chunks were returned while the worker was further ahead
\* and a third one was in the queue.
C2_Witness ==
    /\ Len(delivered[0]) >= 2
    /\ rx[0] # 0
    /\ Len(chans[0][rx[0]].q) >= 1

\* The first chunk of generator i of the harness.
FirstChunk(i) == SubSeq(gOut[i], 1, ChunkFactor)

\* C3: two workers of one user seed with distinct serials start from
\* distinct ChaCha20 generator states, and their first chunks differ.
C3_Disjoint ==
    (/\ alg = "CHACHA20"
     /\ gUser[1] = gUser[2]
     /\ gSerial[1] # NoSerial /\ gSerial[2] # NoSerial
     /\ gSerial[1] # gSerial[2])
    => /\ (gOut[1] = <<>> /\ gOut[2] = <<>>) => gGen[1] # gGen[2]
       /\ (Len(gOut[1]) >= ChunkFactor /\ Len(gOut[2]) >= ChunkFactor)
              => FirstChunk(1) # FirstChunk(2)

\* C4 as claimed: in every reachable state the level is the number of chunks
\* sent on the current channel minus the number received from it.
C4_LevelIsSentMinusReceived ==
    \A s \in StreamIds : level[s] = nsent[s] - nrecv[s]

\* The worker has sent a chunk and not yet added it to the level.
PendingAdd(s) == IF \E g \in Gens : workers[s][g].pc = "inc" THEN 1 ELSE 0

\* get_chunk() has received a chunk and not yet subtracted it from the level.
PendingSub(s) == IF cpc = "dec" /\ cself = s THEN 1 ELSE 0

\* C4 as amended: the level is sent minus received but for the updates that
\* are under way: one less while the worker stands between its send and
\* its fetch_add, one more while get_chunk() stands between its try_recv
\* and its fetch_sub.
C4_LevelIsSentMinusReceivedAtRest ==
    \A s \in StreamIds :
        level[s] = nsent[s] - nrecv[s] - PendingAdd(s) + PendingSub(s)

\* C4's case: chunks were sent and received, and no update is under way.
C4_Witness ==
    /\ nsent[0] >= 3
    /\ nrecv[0] >= 1
    /\ PendingAdd(0) = 0
    /\ PendingSub(0) = 0

\* C5 as claimed: the level stays within [0, LEVEL_THRES + 1].
C5_LevelInRange ==
    \A s \in StreamIds : 0 <= level[s] /\ level[s] <= LEVEL_THRES + 1

\* C5 as amended: the level stays within [-1, LEVEL_THRES + 1]; it is -1
\* when get_chunk() subtracts a chunk the worker has not added yet.
C5_LevelInRangeFromMinusOne ==
    \A s \in StreamIds : -1 <= level[s] /\ level[s] <= LEVEL_THRES + 1

\* C5's case: the worker of a restarted stream has filled the queue up to
\* the threshold.
C5_Witness ==
    /\ level[0] = LEVEL_THRES
    /\ Live(workers[0][2])

\* The generation of the worker spawned last.
Latest(s) == NextGen(s) - 1

\* C6: activate() on an active stream restarts it.  At most one worker of a
\* stream runs at a time; when a worker is spawned every earlier worker has
\* returned, the abort flag is false, the level is 0 and its channel is
\* empty; every chunk returned (or received) since the last start() was sent
\* by the worker spawned last, and the first of them has index 0.
C6_RestartIsFresh ==
    /\ [](\A s \in StreamIds :
            /\ Cardinality({g \in Gens : Live(workers[s][g])}) <= 1
            /\ \A k \in 1..Len(delivered[s]) : delivered[s][k].by = Latest(s)
            /\ Len(delivered[s]) >= 1 => delivered[s][1].chunk.index = 0
            /\ (cpc = "dec" /\ cself = s) => cchunk.by = Latest(s))
    /\ [][\A s \in StreamIds : \A g \in Gens :
            (workers[s][g].pc = "unborn" /\ workers'[s][g].pc # "unborn")
            => /\ ~abort_thread'[s]
               /\ level'[s] = 0
               /\ chans'[s][g].q = <<>>
               /\ \A h \in Gens \ {g} : ~Live(workers'[s][h])
               /\ \A h \in Gens \ {g} : ~Live(workers[s][h])]_vars

\* C6's case: the stream was restarted while its first worker had chunks in
\* the queue, and has returned a chunk of the second worker.
C6_Witness ==
    /\ Live(workers[0][2])
    /\ Len(delivered[0]) >= 1
    /\ nsent[0] >= 2

\* C7: once stop() has set the abort flag, the worker leaves its loop at its
\* next check of the flag (it starts no further iteration), the join returns
\* and stop() completes, also when there was no thread to join; after the
\* drop no worker runs.
C7_CancellationTerminates ==
    /\ (cpc = "join") ~> (cpc # "join")
    /\ [](cpc = "join" /\ cjoin = 0 => ENABLED StopJoin(cself))
    /\ [](cpc = "dropped" => \A s \in StreamIds : \A g \in Gens : ~Live(workers[s][g]))
    /\ [][\A s \in StreamIds : \A g \in Gens :
            (cpc = "join" /\ cself = s /\ workers[s][g].pc = "loop"
                /\ workers'[s][g] # workers[s][g])
            => workers'[s][g].pc = "done"]_vars

\* C7's case: stop() waits in the join for a worker that sleeps on
\* backpressure.
C7_Witness ==
    /\ cpc = "join"
    /\ cjoin # 0
    /\ workers[0][cjoin].pc = "sleep"

\* C8: a worker whose send has failed (the Receiver is gone) terminates: it
\* is never again about to send a chunk, to count one or asleep.
C8_SendErrorEndsWorker ==
    \A s \in StreamIds : \A g \in Gens :
        workers[s][g].send_err => workers[s][g].pc \notin {"send", "inc", "sleep"}

\* The queue get_chunk() reads, and whether it holds a chunk for an active stream.
Queue(s) == IF rx[s] # 0 THEN chans[s][rx[s]].q ELSE <<>>
Ready(s) == is_active(s) /\ Queue(s) # <<>>

\* C9: get_chunk() never waits.  When it takes a chunk the stream is active,
\* the chunk is the oldest of the queue, and returning it subtracts exactly 1
\* from the level and changes no channel; when it returns none the stream
\* is not active or its queue is empty, and level and channels are unchanged.
C9_GetChunkFrame ==
    /\ [](cpc = "dec" => ENABLED GetChunkOk(cself))
    /\ [][\A s \in StreamIds :
            /\ (cpc = "idle" /\ cpc' = "dec" /\ cself' = s)
               => /\ Ready(s)
                  /\ cchunk' = Head(Queue(s))
                  /\ chans'[s][rx[s]].q = Tail(Queue(s))
                  /\ level' = level
            /\ (cpc = "dec" /\ cself = s /\ cpc' = "idle")
               => /\ ret' = RetSome(cchunk.chunk)
                  /\ level'[s] = level[s] - 1
                  /\ chans' = chans
            /\ (cpc = "idle" /\ ret' # ret /\ ret' = RetNone)
               => /\ ~Ready(s)
                  /\ level' = level
                  /\ chans' = chans
                  /\ cpc' = "idle"]_vars

\* C9's case: get_chunk() has returned a chunk of a queue that held more.
C9_Witness ==
    /\ ret.kind = "some"
    /\ cpc = "idle"
    /\ level[0] >= 1
    /\ Queue(0) # <<>>

\* C10: the i-th chunk the aggregator returned (i >= 0) is chunk i \div N of
\* the worker with serial i % N; the cursor moves only with a chunk
\* returned, and a call that returns none leaves cursor and output alone
\* although other streams may hold chunks.
C10_AggregatorOrder ==
    /\ [](LET n == Cardinality(StreamIds)
          IN  /\ cursor = Len(aggOut) % n
              /\ \A i \in 0..(Len(aggOut) - 1) :
                    /\ aggOut[i + 1].stream = i % n
                    /\ aggOut[i + 1].chunk = ChunkOf(alg, seed, i % n, i \div n))
    /\ [][/\ cursor' # cursor => Len(aggOut') = Len(aggOut) + 1
          /\ (cpc = "idle" /\ ret' # ret /\ ret' = RetNone)
             => /\ ~Ready(cursor)
                /\ cursor' = cursor
                /\ aggOut' = aggOut]_vars

\* C10's case: two streams, three chunks returned, then none from the
\* stream under the cursor while the other stream holds a chunk.
C10_Witness ==
    /\ Cardinality(StreamIds) = 2
    /\ Len(aggOut) >= 3
    /\ ret = RetNone
    /\ Queue(cursor) = <<>>
    /\ \E s \in StreamIds : s # cursor /\ Queue(s) # <<>>

\* The ChaCha20 key of a seed, said without the copy loop: the first KEYLEN
\* bytes of the seed followed by zero bytes.
Key32(sd) == SubSeq(sd \o [i \in 1..KEYLEN |-> 0], 1, KEYLEN)

\* Both generators of the harness were built from their user seed alone.
PlainSeeds == gSerial[1] = NoSerial /\ gSerial[2] = NoSerial

\* The blocks of the two generators differ at each position both have reached.
BlocksDifferPairwise ==
    \A k \in 1..min(Len(gOut[1]), Len(gOut[2])) : gOut[1][k] # gOut[2][k]

\* Consecutive blocks of one generator differ.
ConsecutiveBlocksDiffer ==
    \A i \in 1..2 : \A k \in 1..(Len(gOut[i]) - 1) : gOut[i][k] # gOut[i][k + 1]

\* C14 as claimed: generators of two different seeds, ChaCha20 or SHA-512,
\* return different blocks at each position, and consecutive blocks of one
\* generator differ.
C14_SeedSensitive ==
    /\ (PlainSeeds /\ gUser[1] # gUser[2]) => BlocksDifferPairwise
    /\ ConsecutiveBlocksDiffer

\* C14 as amended: ChaCha20 generators of two seeds whose keys differ (the
\* seed cut to 32 bytes, or filled up with zero bytes) and SHA-512
\* generators of two different seeds return different blocks at each
\* position, and consecutive blocks of one generator differ.
C14_KeySensitive ==
    /\ (/\ PlainSeeds
        /\ IF alg = "CHACHA20" THEN Key32(gUser[1]) # Key32(gUser[2])
           ELSE gUser[1] # gUser[2])
       => BlocksDifferPairwise
    /\ ConsecutiveBlocksDiffer

\* C14's case: two ChaCha20 generators of seeds as long as the key that differ
\* in their last byte have returned all their blocks.
C14_Witness ==
    /\ alg = "CHACHA20"
    /\ PlainSeeds
    /\ Len(gUser[1]) = KEYLEN /\ Len(gUser[2]) = KEYLEN
    /\ gUser[1] # gUser[2]
    /\ Len(gOut[1]) = MaxBlocks /\ Len(gOut[2]) = MaxBlocks

\* C16: the worker builds and sends a chunk only after it has read a level
\* below LEVEL_THRES: when it sends the level is at most LEVEL_THRES - 1 and
\* after its fetch_add at most LEVEL_THRES.  When it reads a level of
\* LEVEL_THRES or more it builds and sends nothing, sleeps, and goes back to
\* the head of its loop, where it reads the abort flag and the level again.
C16_BackpressurePause ==
    /\ [](\A s \in StreamIds : \A g \in Gens :
            workers[s][g].pc = "send" => level[s] <= LEVEL_THRES - 1)
    /\ [][\A s \in StreamIds : \A g \in Gens :
            LET w == workers[s][g]
                v == workers'[s][g]
            IN  /\ (w.pc = "inc" /\ v # w) => level'[s] <= LEVEL_THRES
                /\ (w.pc = "level" /\ v # w /\ level[s] < LEVEL_THRES)
                   => v.pc = "send" /\ v.chunk.index = w.index
                /\ (w.pc = "level" /\ v # w /\ level[s] >= LEVEL_THRES)
                   => /\ v = [w EXCEPT !.pc = "sleep"]
                      /\ chans' = chans /\ nsent' = nsent /\ level' = level
                /\ (w.pc = "sleep" /\ v # w)
                   => /\ v = [w EXCEPT !.pc = "loop"]
                      /\ chans' = chans /\ nsent' = nsent /\ level' = level
                /\ (w.pc = "loop" /\ v # w) => v.pc \in {"level", "done"}]_vars
    /\ [][\A s \in StreamIds :
            nsent'[s] > nsent[s]
            => /\ \E g \in Gens : workers[s][g].pc = "send"
               /\ level[s] <= LEVEL_THRES - 1]_vars

\* C16's case: the worker sleeps at the threshold after get_chunk() has
\* taken chunks.
C16_Witness ==
    /\ workers[0][1].pc = "sleep"
    /\ level[0] = LEVEL_THRES
    /\ nrecv[0] >= 1

\* C20: the chunks sent and not yet received, the queue of the channel, are
\* at most LEVEL_THRES, in every state of every interleaving.
C20_QueueBounded ==
    \A s \in StreamIds :
        /\ \A g \in Gens : Len(chans[s][g].q) <= LEVEL_THRES
        /\ rx[s] # 0 => nsent[s] - nrecv[s] = Len(Queue(s))
        /\ nsent[s] - nrecv[s] <= LEVEL_THRES

\* C20's case: the queue is full again after get_chunk() has taken chunks
\* from it.
C20_Witness ==
    /\ Len(Queue(0)) = LEVEL_THRES
    /\ nrecv[0] >= 2

\* Block n (n >= 0) of the generator of the runs' seed, and byte k (k >= 0)
\* of its stream: byte k % OUTSIZE of block k \div OUTSIZE.
NthBlock(n) == Blocks(Disktest_new(seed), n + 1).data[n + 1]
StreamByte(k) == Byte(NthBlock(k \div OutSize), k % OutSize)

\* The bytes read_mode is to verify, and the offsets among them at which
\* the device differs from the stream.
VerifiedRange == min(rmax, Len(file.data))
Differing == {k \in 0..(VerifiedRange - 1) : file.data[k + 1] # StreamByte(k)}

\* The read run has ended and every file.read returned Ok.
ReadDone == dpc = "end" /\ ~io.rerr

\* C11 as claimed: after a write run that met no error, a read run with the
\* same seed on the unchanged device succeeds, whatever its byte limit and
\* however the reads fall short.
C11_RoundTrip ==
    (ReadDone /\ io.flipped = {} /\ io.werr = "none" /\ wres = ResOk) => rres = ResOk

\* C11 as amended: the read run succeeds when its byte limit is at most the
\* number of bytes the write run stored, or the device ends where the stored
\* bytes end (a file, which the open for writing truncates).
C11_RoundTripWritten ==
    (/\ ReadDone
     /\ io.flipped = {}
     /\ rmax <= io.extent \/ Len(file.data) = io.extent)
    => rres = ResOk /\ bytes_read = VerifiedRange

\* C11's case: the write run stored more than one buffer, the last one cut,
\* and the read run verified them in short reads.
C11_Witness ==
    /\ ReadDone
    /\ io.flipped = {}
    /\ io.werr = "none"
    /\ wmax > WRITEBUFLEN /\ wmax % OutSize # 0
    /\ rmax = wmax
    /\ io.short
    /\ rres = ResOk

\* C12: when the device differs from the stream within the verified range,
\* read_mode returns the mismatch error with the smallest differing offset,
\* never a later one and never success; it reports no mismatch otherwise.
C12_MismatchOffset ==
    ReadDone =>
        /\ Differing # {}
           => \E p \in Differing :
                 /\ \A k \in Differing : p <= k
                 /\ rres = ResErr("mismatch", p)
        /\ rres.kind = "mismatch" => rres.at \in Differing

\* C12's case: the mismatch is in the second buffer, which short reads
\* filled, and a later byte differs too.
C12_Witness ==
    /\ ReadDone
    /\ rres.kind = "mismatch"
    /\ rres.at >= READBUFLEN
    /\ \E k \in Differing : k > rres.at
    /\ io.flipped # {}
    /\ io.short

\* The write run has returned.
WriteDone == dpc \in {"wrote", "read", "end"}

\* C13: write_mode returns success after a write error "no space left" (and
\* a sync that succeeded) and an error after any other write error.
C13_WriteErrorOutcome ==
    WriteDone =>
        /\ (io.werr = "nospace" /\ io.sync_ok) => wres = ResOk
        /\ io.werr = "other" => wres.kind \notin {"ok", "none"}

\* C17: read_mode terminates.  It never asks the device for more than what
\* is left of max_bytes; a read of 0 bytes with bytes in the buffer has them
\* compared and ends the run, a read of 0 bytes with none ends it at once;
\* on success it has verified min(max_bytes, device length) bytes.
C17_ReadEnds ==
    /\ (dpc = "read") ~> (dpc = "end")
    /\ [](dpc = "read" =>
            /\ ReadRequest >= 0
            /\ ReadRequest <= rmax - (bytes_read + read_count))
    /\ [](dpc = "end" /\ rres = ResOk => bytes_read = VerifiedRange)
    /\ [][(/\ dpc = "read"
           /\ ~io'.rerr
           /\ min(ReadRequest, ReadAvail) = 0)
          => /\ dpc' = "end"
             /\ IF read_count > 0
                THEN \/ rres' = ResOk /\ bytes_read' = bytes_read + read_count
                     \/ rres'.kind = "mismatch" /\ rres'.at >= bytes_read
                                                /\ rres'.at < bytes_read + read_count
                ELSE rres' = ResOk /\ bytes_read' = bytes_read]_vars

\* C17's case: the device ends before max_bytes, inside a buffer that short
\* reads were filling.
C17_Witness ==
    /\ dpc = "end"
    /\ rres = ResOk
    /\ rmax > Len(file.data)
    /\ bytes_read = Len(file.data)
    /\ bytes_read % READBUFLEN # 0
    /\ bytes_read > READBUFLEN
    /\ io.short

\* C18: a write run without a write error writes max_bytes bytes, byte k of
\* the device being byte k of the stream; each write_all takes min(bytes
\* left, buffer size) bytes; nothing is written past max_bytes (a file ends
\* there, a block device holds what it held).  The bytes a run stored before
\* a write error are bytes of the stream as well.
C18_WrittenContent ==
    (dpc \in {"write", "finalize", "wrote"} /\ io.flipped = {}) =>
        /\ \A k \in 0..(io.extent - 1) : file.data[k + 1] = StreamByte(k)
        /\ \A i \in 1..Len(io.wlens) :
              io.wlens[i] = min(WRITEBUFLEN, wmax - (i - 1) * WRITEBUFLEN)
        /\ IF file.fixed
           THEN /\ Len(file.data) = Len(io.old)
                /\ \A k \in io.extent..(Len(file.data) - 1) : file.data[k + 1] = io.old[k + 1]
           ELSE Len(file.data) = io.extent
        /\ (dpc # "write" /\ io.werr = "none")
           => bytes_written = wmax /\ io.extent = wmax /\ bytes_left = 0

\* C18's case: max_bytes is no multiple of the block or the buffer size and
\* took more than one write_all.
C18_Witness ==
    /\ dpc = "wrote"
    /\ io.werr = "none"
    /\ io.flipped = {}
    /\ wmax % OutSize # 0
    /\ Len(io.wlens) >= 2
    /\ ~file.fixed

\* C19: write_mode returns success only after a sync that succeeded and
\* that no write followed; on every path, all bytes written or a write
\* error, it has called sync_all exactly once when it returns; a failed
\* sync makes it return an error.
C19_SyncBeforeSuccess ==
    /\ wres = ResOk => io.nsync = 1 /\ io.sync_ok /\ ~io.dirty
    /\ WriteDone => io.nsync = 1
    /\ ~WriteDone => io.nsync = 0 /\ wres = ResNone
    /\ (WriteDone /\ ~io.sync_ok) => wres.kind = "sync"

\* C19's case: a write error stopped the run after a buffer was written,
\* and the sync succeeded.
C19_Witness ==
    /\ WriteDone
    /\ io.werr # "none"
    /\ Len(io.wlens) >= 2
    /\ wres = ResOk

\* C21: the assert "read_count <= read_len" of read_mode never fails, for
\* every max_bytes and every sequence of reads that return from 0 bytes to
\* the length of the slice: the bytes in the buffer never exceed read_len,
\* read_len never exceeds bytes_left while the loop runs, and bytes_left,
\* from which the bytes of a buffer are subtracted, never goes below 0.
C21_ReadCountWithinLen ==
    /\ [](/\ io.asserted
          /\ 0 <= read_count /\ read_count <= read_len
          /\ Len(buffer) = read_count
          /\ bytes_left >= 0
          /\ dpc = "read" => read_len <= bytes_left /\ ReadRequest >= 0
          /\ dpc \in {"read", "end"} => bytes_left + bytes_read = rmax)
    /\ [][(dpc = "read" /\ bytes_left' # bytes_left)
          => /\ bytes_left' = bytes_left - (bytes_read' - bytes_read)
             /\ bytes_read' - bytes_read >= read_count
             /\ bytes_read' - bytes_read <= read_len
             /\ bytes_left' >= 0]_vars

\* C21's case: a read returned 0 bytes before the end of the device and of
\* max_bytes, with bytes of a second buffer accumulated in short reads.
C21_Witness ==
    /\ dpc = "end"
    /\ rres = ResOk
    /\ io.short
    /\ bytes_read > READBUFLEN
    /\ bytes_read % READBUFLEN # 0
    /\ bytes_read < VerifiedRange

====
